---- MODULE Spec2Model ----
(***************************************************************************)
(* A model of the node module of the file tree (3FT/nodeFT.c): nodes with  *)
(* two child collections (directories, files), creation with validation,   *)
(* recursive destruction, and the setters.                                 *)
(*                                                                         *)
(* The heap is the sequence `nodes`: node k is the k-th struct ever        *)
(* allocated by Node_new; a Node_T is an index into it and NULL is 0.      *)
(* Freed structs stay in the sequence with live = FALSE, so that a         *)
(* pointer to one (a dangling pointer) can be recognised.                  *)
(***************************************************************************)
EXTENDS Integers, Sequences, FiniteSets, TLC

(* ---- bounds ---- *)
MaxNodes == 4      \* structs Node_new may allocate in one run
NComp == 2         \* distinct path components ("a", "b", ...)
NRootComp == 1     \* of which may be the first component of a path
MaxDepth == 3      \* deepest path handed to Node_new
MaxContent == 1    \* distinct non-NULL content buffers
MaxRoots == 1      \* trees alive at one time
MaxFaults == 1     \* allocations that fail in one run
MaxSets == 1       \* calls of Node_setDir and Node_replaceFileContents in one run
MaxDestroys == 1   \* calls of Node_destroyFree in one run
MaxGarbage == 1    \* largest value found in an uninitialised size_t

NULL == 0
Slash == 0         \* '/' sorts below every component character

VARIABLES
  nodes,     \* the heap of struct node
  orphans,   \* DynArrays allocated and no longer referenced by any struct
  last,      \* the latest call: its arguments of interest and what it returned
  ub,        \* the latest call had undefined behaviour; the run is abandoned
  faults,    \* allocations that have failed so far
  sets,      \* calls of the two setters so far
  parents,   \* history: the nodes a successful Node_new was given as parent
  flipped,   \* history: the nodes whose flag Node_setDir has changed
  destroys   \* calls of Node_destroyFree so far

vars == <<nodes, orphans, last, ub, faults, sets, parents, flipped, destroys>>

(* ---- Path (collaborator): a path is its sequence of components ---- *)

Paths ==
  {p \in UNION {[1..k -> 1..NComp] : k \in 0..MaxDepth} :
     Len(p) > 0 => p[1] <= NRootComp}

Path_getDepth(oPPath) == Len(oPPath)

Path_getSharedPrefixDepth(oPPath1, oPPath2) ==
  LET m == IF Len(oPPath1) < Len(oPPath2) THEN Len(oPPath1) ELSE Len(oPPath2)
      agree == {k \in 0..m : \A i \in 1..k : oPPath1[i] = oPPath2[i]}
  IN  CHOOSE k \in agree : \A j \in agree : j <= k

\* the string form: components joined by '/'
RECURSIVE Path_getPathname(_)
Path_getPathname(oPPath) ==
  IF Len(oPPath) = 0 THEN <<>>
  ELSE IF Len(oPPath) = 1 THEN <<oPPath[1]>>
  ELSE Path_getPathname(SubSeq(oPPath, 1, Len(oPPath) - 1))
         \o <<Slash, oPPath[Len(oPPath)]>>

\* strcmp on two strings: -1, 0 or 1
RECURSIVE strcmp(_, _)
strcmp(s, t) ==
  IF Len(s) = 0 /\ Len(t) = 0 THEN 0
  ELSE IF Len(s) = 0 THEN -1
  ELSE IF Len(t) = 0 THEN 1
  ELSE IF s[1] < t[1] THEN -1
  ELSE IF s[1] > t[1] THEN 1
  ELSE strcmp(Tail(s), Tail(t))

Path_comparePath(oPPath1, oPPath2) ==
  strcmp(Path_getPathname(oPPath1), Path_getPathname(oPPath2))

Path_compareString(oPPath, pcStr) == strcmp(Path_getPathname(oPPath), pcStr)

(* ---- DynArray (collaborator): a sequence, indices from 0 ---- *)

DynArray_addAt(arr, ulIndex, elem) ==
  SubSeq(arr, 1, ulIndex) \o <<elem>> \o SubSeq(arr, ulIndex + 1, Len(arr))

DynArray_removeAt(arr, ulIndex) ==
  SubSeq(arr, 1, ulIndex) \o SubSeq(arr, ulIndex + 2, Len(arr))

\* What a comparator yields when it reads through a dangling pointer.
Dangling == 2

\* Binary search over cmps, where cmps[i+1] is pfCompare(element i, key).
\* found, and idx: where the key is or would be; ub: the search read
\* through a dangling pointer.
RECURSIVE DynArray_bsearch(_, _, _)
DynArray_bsearch(cmps, ulLo, ulHi) ==
  IF ulLo > ulHi THEN [found |-> FALSE, idx |-> ulLo, ub |-> FALSE]
  ELSE LET ulMid == (ulLo + ulHi) \div 2
           iCmp == cmps[ulMid + 1]
       IN  IF iCmp = Dangling THEN [found |-> FALSE, idx |-> 0, ub |-> TRUE]
           ELSE IF iCmp = 0 THEN [found |-> TRUE, idx |-> ulMid, ub |-> FALSE]
           ELSE IF iCmp < 0 THEN DynArray_bsearch(cmps, ulMid + 1, ulHi)
           ELSE DynArray_bsearch(cmps, ulLo, ulMid - 1)

(* ---- struct node ---- *)

Buffers == 0..MaxContent
\* the byte length of buffer c (NULL has none)
BufLen(c) == IF c = NULL THEN 0 ELSE c + 1
\* the lengths a caller may pass with a buffer
Lengths == 0..(MaxContent + 1)

\* a struct whose memory has been returned: nothing of it is allocated
FreedNode ==
  [live |-> FALSE, pathLive |-> FALSE, dirsLive |-> FALSE, filesLive |-> FALSE,
   isDir |-> FALSE, oPPath |-> <<>>, oNParent |-> NULL,
   oDDirChildren |-> <<>>, oDFileChildren |-> <<>>,
   fileContent |-> NULL, fileSize |-> 0]

Live(h, n) == n \in DOMAIN h /\ h[n].live

Node_isDir(h, oNNode) == h[oNNode].isDir
Node_getPath(h, oNNode) == h[oNNode].oPPath
Node_getParent(h, oNNode) == h[oNNode].oNParent
Node_getFileContents(h, oNNode) == h[oNNode].fileContent
Node_getFileSize(h, oNNode) == h[oNNode].fileSize
Node_getNumDirChildren(h, oNParent) == Len(h[oNParent].oDDirChildren)
Node_getNumFileChildren(h, oNParent) == Len(h[oNParent].oDFileChildren)

Node_compareString(h, oNFirst, pcSecond) ==
  IF ~Live(h, oNFirst) THEN Dangling
  ELSE Path_compareString(h[oNFirst].oPPath, pcSecond)

Node_compare(h, oNFirst, oNSecond) ==
  IF ~Live(h, oNFirst) \/ ~Live(h, oNSecond) THEN Dangling
  ELSE IF h[oNFirst].isDir = FALSE /\ h[oNFirst].isDir = TRUE THEN -1
  ELSE IF h[oNFirst].isDir = TRUE /\ h[oNFirst].isDir = FALSE THEN 1
  ELSE Path_comparePath(h[oNFirst].oPPath, h[oNSecond].oPPath)

\* found, the index left in *pulChildID, and ub
Node_hasChild(h, oNParent, oPPath) ==
  LET name == Path_getPathname(oPPath)
      dirs == h[oNParent].oDDirChildren
      files == h[oNParent].oDFileChildren
      i == DynArray_bsearch([k \in 1..Len(dirs) |->
                               Node_compareString(h, dirs[k], name)],
                            0, Len(dirs) - 1)
      j == DynArray_bsearch([k \in 1..Len(files) |->
                               Node_compareString(h, files[k], name)],
                            0, Len(files) - 1)
  IN  IF i.ub THEN [found |-> FALSE, idx |-> 0, isDir |-> FALSE, ub |-> TRUE]
      ELSE IF i.found
        THEN [found |-> TRUE, idx |-> i.idx, isDir |-> TRUE, ub |-> FALSE]
      ELSE IF j.ub THEN [found |-> FALSE, idx |-> 0, isDir |-> FALSE, ub |-> TRUE]
      ELSE IF j.found
        THEN [found |-> TRUE, idx |-> j.idx, isDir |-> FALSE, ub |-> FALSE]
      ELSE [found |-> FALSE, idx |-> j.idx, isDir |-> FALSE, ub |-> FALSE]

\* the parent holds a (live) child, directory or file, with exactly this path
HoldsPath(h, oNParent, oPPath) ==
  \E k \in 1..Len(h[oNParent].oDDirChildren \o h[oNParent].oDFileChildren) :
    LET c == (h[oNParent].oDDirChildren \o h[oNParent].oDFileChildren)[k]
    IN  Live(h, c) /\ h[c].oPPath = oPPath

\* the path of the parent is not a prefix of the path
NotAncestor(h, oNParent, oPPath) ==
  /\ oNParent # NULL
  /\ \E i \in 1..Len(h[oNParent].oPPath) :
       i > Len(oPPath) \/ oPPath[i] # h[oNParent].oPPath[i]

\* the path is one component longer than the parent's; a single component
\* when there is no parent
OneLevelBelow(h, oNParent, oPPath) ==
  Len(oPPath) = (IF oNParent = NULL THEN 0 ELSE Len(h[oNParent].oPPath)) + 1

\* Node_addChild, were it to link the child before learning that the
\* collection cannot grow
Node_addChild_linksOnFailure(h, oNParent, oNChild, ulIndex, isDirec, grows) ==
  LET into == IF isDirec THEN h[oNParent].oDDirChildren
              ELSE h[oNParent].oDFileChildren
      hh == IF isDirec
            THEN [h EXCEPT ![oNParent].oDDirChildren =
                    DynArray_addAt(@, ulIndex, oNChild)]
            ELSE [h EXCEPT ![oNParent].oDFileChildren =
                    DynArray_addAt(@, ulIndex, oNChild)]
  IN  IF ulIndex > Len(into) THEN [h |-> h, iStatus |-> "UB"]
      ELSE [h |-> hh, iStatus |-> IF grows THEN "SUCCESS" ELSE "MEMORY_ERROR"]

\* Node_addChild, were it to choose the collection by the opposite flag
Node_addChild_wrongCollection(h, oNParent, oNChild, ulIndex, isDirec, grows) ==
  LET into == IF ~isDirec THEN h[oNParent].oDDirChildren
              ELSE h[oNParent].oDFileChildren
      hh == IF ~isDirec
            THEN [h EXCEPT ![oNParent].oDDirChildren =
                    DynArray_addAt(@, ulIndex, oNChild)]
            ELSE [h EXCEPT ![oNParent].oDFileChildren =
                    DynArray_addAt(@, ulIndex, oNChild)]
  IN  IF ulIndex > Len(into) THEN [h |-> h, iStatus |-> "UB"]
      ELSE IF grows THEN [h |-> hh, iStatus |-> "SUCCESS"]
      ELSE [h |-> h, iStatus |-> "MEMORY_ERROR"]

\* Node_addChild, were it to link the parent into the child's collection
Node_addChild_swapped(h, oNParent, oNChild, ulIndex, isDirec, grows) ==
  LET into == IF isDirec THEN h[oNChild].oDDirChildren
              ELSE h[oNChild].oDFileChildren
      hh == IF isDirec
            THEN [h EXCEPT ![oNChild].oDDirChildren =
                    DynArray_addAt(@, ulIndex, oNParent)]
            ELSE [h EXCEPT ![oNChild].oDFileChildren =
                    DynArray_addAt(@, ulIndex, oNParent)]
  IN  IF ulIndex > Len(into) THEN [h |-> h, iStatus |-> "UB"]
      ELSE IF grows THEN [h |-> hh, iStatus |-> "SUCCESS"]
      ELSE [h |-> h, iStatus |-> "MEMORY_ERROR"]

\* grows: DynArray_addAt finds the memory it needs.  The new heap and the
\* status; "UB" when the index lies beyond the end of the collection.
Node_addChild(h, oNParent, oNChild, ulIndex, isDirec, grows) ==
  IF isDirec
  THEN IF ulIndex > Len(h[oNParent].oDDirChildren)
       THEN [h |-> h, iStatus |-> "UB"]
       ELSE IF grows
       THEN [h |-> [h EXCEPT ![oNParent].oDDirChildren =
                       DynArray_addAt(@, ulIndex, oNChild)],
             iStatus |-> "SUCCESS"]
       ELSE [h |-> h, iStatus |-> "MEMORY_ERROR"]
  ELSE IF ulIndex > Len(h[oNParent].oDFileChildren)
       THEN [h |-> h, iStatus |-> "UB"]
       ELSE IF grows
       THEN [h |-> [h EXCEPT ![oNParent].oDFileChildren =
                       DynArray_addAt(@, ulIndex, oNChild)],
             iStatus |-> "SUCCESS"]
       ELSE [h |-> h, iStatus |-> "MEMORY_ERROR"]

\* the allocation of Node_new that fails, if any
FailPoints ==
  {"none", "malloc", "Path_dup", "DynArray_new_dirs", "DynArray_new_files",
   "DynArray_new_both", "DynArray_addAt"}

\* Node_new, were it to look at the depth of the path before its prefix
Node_new_depthFirst(h, isDirec, oPPath, oNParent, pvContents, ulLength, fail) ==
  LET psNew == Len(h) + 1
      Failed(st, lost) ==
        [h |-> h, iStatus |-> st, oNResult |-> NULL, orphaned |-> lost]
      ulParentDepth == Path_getDepth(h[oNParent].oPPath)
      ulSharedDepth == Path_getSharedPrefixDepth(oPPath, h[oNParent].oPPath)
      has == Node_hasChild(h, oNParent, oPPath)
      ulIndex == has.idx
      fresh == [live |-> TRUE, pathLive |-> TRUE, dirsLive |-> TRUE,
                filesLive |-> TRUE, isDir |-> isDirec, oPPath |-> oPPath,
                oNParent |-> oNParent,
                oDDirChildren |-> <<>>, oDFileChildren |-> <<>>,
                fileContent |-> IF ~isDirec THEN pvContents ELSE NULL,
                fileSize |-> IF ~isDirec THEN ulLength ELSE 0]
      linked == Node_addChild(Append(h, fresh), oNParent, psNew, ulIndex,
                              isDirec, fail # "DynArray_addAt")
  IN  IF fail = "malloc" THEN Failed("MEMORY_ERROR", 0)
      ELSE IF fail = "Path_dup" THEN Failed("MEMORY_ERROR", 0)
      ELSE IF oNParent # NULL /\ Path_getDepth(oPPath) # ulParentDepth + 1
        THEN Failed("NO_SUCH_PATH", 0)
      ELSE IF oNParent # NULL /\ ulSharedDepth < ulParentDepth
        THEN Failed("CONFLICTING_PATH", 0)
      ELSE IF oNParent # NULL /\ has.ub THEN Failed("UB", 0)
      ELSE IF oNParent # NULL /\ has.found THEN Failed("ALREADY_IN_TREE", 0)
      ELSE IF oNParent = NULL /\ Path_getDepth(oPPath) # 1
        THEN Failed("NO_SUCH_PATH", 0)
      ELSE IF fail = "DynArray_new_both" THEN Failed("MEMORY_ERROR", 0)
      ELSE IF fail \in {"DynArray_new_dirs", "DynArray_new_files"}
        THEN Failed("MEMORY_ERROR", 1)
      ELSE IF oNParent = NULL
        THEN [h |-> Append(h, fresh), iStatus |-> "SUCCESS",
              oNResult |-> psNew, orphaned |-> 0]
      ELSE IF linked.iStatus = "UB" THEN Failed("UB", 0)
      ELSE IF linked.iStatus # "SUCCESS"
        THEN \* free(psNew): the struct goes, its two collections stay behind
             [h |-> SubSeq(linked.h, 1, Len(h)), iStatus |-> linked.iStatus,
              oNResult |-> NULL, orphaned |-> 2]
      ELSE [h |-> linked.h, iStatus |-> "SUCCESS",
            oNResult |-> psNew, orphaned |-> 0]

\* The heap after the call, the status returned, *poNResult, and the number
\* of DynArrays the call allocated and left unreferenced.
Node_new(h, isDirec, oPPath, oNParent, pvContents, ulLength, fail) ==
  LET psNew == Len(h) + 1
      Failed(st, lost) ==
        [h |-> h, iStatus |-> st, oNResult |-> NULL, orphaned |-> lost]
      ulParentDepth == Path_getDepth(h[oNParent].oPPath)
      ulSharedDepth == Path_getSharedPrefixDepth(oPPath, h[oNParent].oPPath)
      has == Node_hasChild(h, oNParent, oPPath)
      ulIndex == has.idx
      fresh == [live |-> TRUE, pathLive |-> TRUE, dirsLive |-> TRUE,
                filesLive |-> TRUE, isDir |-> isDirec, oPPath |-> oPPath,
                oNParent |-> oNParent,
                oDDirChildren |-> <<>>, oDFileChildren |-> <<>>,
                fileContent |-> IF ~isDirec THEN pvContents ELSE NULL,
                fileSize |-> IF ~isDirec THEN ulLength ELSE 0]
      linked == Node_addChild(Append(h, fresh), oNParent, psNew, ulIndex,
                              isDirec, fail # "DynArray_addAt")
  IN  IF fail = "malloc" THEN Failed("MEMORY_ERROR", 0)
      ELSE IF fail = "Path_dup" THEN Failed("MEMORY_ERROR", 0)
      ELSE IF oNParent # NULL /\ ulSharedDepth < ulParentDepth
        THEN Failed("CONFLICTING_PATH", 0)
      ELSE IF oNParent # NULL /\ Path_getDepth(oPPath) # ulParentDepth + 1
        THEN Failed("NO_SUCH_PATH", 0)
      ELSE IF oNParent # NULL /\ has.ub THEN Failed("UB", 0)
      ELSE IF oNParent # NULL /\ has.found THEN Failed("ALREADY_IN_TREE", 0)
      ELSE IF oNParent = NULL /\ Path_getDepth(oPPath) # 1
        THEN Failed("NO_SUCH_PATH", 0)
      ELSE IF fail = "DynArray_new_both" THEN Failed("MEMORY_ERROR", 0)
      ELSE IF fail \in {"DynArray_new_dirs", "DynArray_new_files"}
        THEN Failed("MEMORY_ERROR", 1)
      ELSE IF oNParent = NULL
        THEN [h |-> Append(h, fresh), iStatus |-> "SUCCESS",
              oNResult |-> psNew, orphaned |-> 0]
      ELSE IF linked.iStatus = "UB" THEN Failed("UB", 0)
      ELSE IF linked.iStatus # "SUCCESS"
        THEN \* free(psNew): the struct goes, its two collections stay behind
             [h |-> SubSeq(linked.h, 1, Len(h)), iStatus |-> linked.iStatus,
              oNResult |-> NULL, orphaned |-> 2]
      ELSE [h |-> linked.h, iStatus |-> "SUCCESS",
            oNResult |-> psNew, orphaned |-> 0]

\* Node_free: the heap after the call, the count returned, and ub: the call
\* read or freed memory already freed (the heap is then the one in which it
\* did so, and the count is anything).
RECURSIVE Node_free(_, _), Node_freeDirChildren(_, _, _), Node_freeFileChildren(_, _, _)

\* lines 204-221: remove oNNode from its parent's collections
Node_detach(h, oNNode) ==
  LET oNParent == h[oNNode].oNParent
      dirs == h[oNParent].oDDirChildren
      inDirs == DynArray_bsearch([k \in 1..Len(dirs) |->
                                    Node_compare(h, dirs[k], oNNode)],
                                 0, Len(dirs) - 1)
      h1 == IF h[oNParent].dirsLive /\ inDirs.found
            THEN [h EXCEPT ![oNParent].oDDirChildren =
                     DynArray_removeAt(@, inDirs.idx)]
            ELSE h
      files == h1[oNParent].oDFileChildren
      inFiles == DynArray_bsearch([k \in 1..Len(files) |->
                                     Node_compare(h1, files[k], oNNode)],
                                  0, Len(files) - 1)
      h2 == IF h1[oNParent].filesLive /\ inFiles.found
            THEN [h1 EXCEPT ![oNParent].oDFileChildren =
                     DynArray_removeAt(@, inFiles.idx)]
            ELSE h1
  IN  IF oNParent = NULL THEN [h |-> h, ub |-> FALSE]
      ELSE IF ~Live(h, oNParent) THEN [h |-> h, ub |-> TRUE]
      ELSE IF h[oNParent].dirsLive /\ inDirs.ub THEN [h |-> h, ub |-> TRUE]
      ELSE IF h1[oNParent].filesLive /\ inFiles.ub THEN [h |-> h, ub |-> TRUE]
      ELSE [h |-> h2, ub |-> FALSE]

\* lines 225-227
Node_freeDirChildren(h, oNNode, ulCount) ==
  IF Len(h[oNNode].oDDirChildren) = 0
  THEN [h |-> h, ulCount |-> ulCount, ub |-> FALSE]
  ELSE LET r == Node_free(h, h[oNNode].oDDirChildren[1])
       IN  IF r.ub THEN r
           ELSE Node_freeDirChildren(r.h, oNNode, ulCount + r.ulCount)

\* lines 232-235
Node_freeFileChildren(h, oNNode, ulCount) ==
  IF Len(h[oNNode].oDFileChildren) = 0
  THEN [h |-> h, ulCount |-> ulCount, ub |-> FALSE]
  ELSE LET r == Node_free(h, h[oNNode].oDFileChildren[1])
       IN  IF r.ub THEN r
           ELSE Node_freeFileChildren(r.h, oNNode, ulCount + r.ulCount)

Node_free(h, oNNode) ==
  IF ~Live(h, oNNode) THEN [h |-> h, ulCount |-> 0, ub |-> TRUE]
  ELSE
    LET d == Node_detach(h, oNNode)
        a == Node_freeDirChildren(d.h, oNNode, 0)
        ha == [a.h EXCEPT ![oNNode].dirsLive = FALSE]
        b == Node_freeFileChildren(ha, oNNode, a.ulCount)
    IN  IF d.ub THEN [h |-> h, ulCount |-> 0, ub |-> TRUE]
        ELSE IF a.ub THEN a
        ELSE IF b.ub THEN b
        ELSE [h |-> [b.h EXCEPT ![oNNode] = FreedNode],
              ulCount |-> b.ulCount + 1, ub |-> FALSE]

\* the status returned and *poNResult
Node_getChild(h, childIsDir, oNParent, ulChildID) ==
  IF childIsDir
  THEN IF ulChildID >= Node_getNumDirChildren(h, oNParent)
       THEN [iStatus |-> "NO_SUCH_PATH", oNResult |-> NULL]
       ELSE [iStatus |-> "SUCCESS",
             oNResult |-> h[oNParent].oDDirChildren[ulChildID + 1]]
  ELSE IF ulChildID >= Node_getNumFileChildren(h, oNParent)
       THEN [iStatus |-> "NO_SUCH_PATH", oNResult |-> NULL]
       ELSE [iStatus |-> "SUCCESS",
             oNResult |-> h[oNParent].oDFileChildren[ulChildID + 1]]

\* Node_destroyFree: the heap after the call, what the call has added to
\* ulCount (which it never initialises), and ub: the call read or freed memory
\* already freed.
RECURSIVE Node_destroyDirChildren(_, _, _, _), Node_destroyFileChildren(_, _, _, _)

\* lines 262-263: after r, the outcome of Node_free(child), on to index i + 1
Node_destroyDirChild(r, oNNode, i, ulCount) ==
  IF r.ub THEN r
  ELSE Node_destroyDirChildren(r.h, oNNode, i + 1, ulCount + r.ulCount)

\* lines 260-264, from index i on
Node_destroyDirChildren(h, oNNode, i, ulCount) ==
  IF ~(i < Node_getNumDirChildren(h, oNNode))
  THEN [h |-> h, ulCount |-> ulCount, ub |-> FALSE]
  ELSE Node_destroyDirChild(
         Node_free(h, Node_getChild(h, TRUE, oNNode, i).oNResult),
         oNNode, i, ulCount)

\* lines 270-272: free(child) releases the struct alone; on to index i + 1
Node_destroyFileChild(h, child, oNNode, i, ulCount) ==
  IF ~Live(h, child) THEN [h |-> h, ulCount |-> ulCount, ub |-> TRUE]
  ELSE Node_destroyFileChildren([h EXCEPT ![child].live = FALSE],
                                oNNode, i + 1, ulCount + 1)

\* lines 268-273, from index i on
Node_destroyFileChildren(h, oNNode, i, ulCount) ==
  IF ~(i < Node_getNumFileChildren(h, oNNode))
  THEN [h |-> h, ulCount |-> ulCount, ub |-> FALSE]
  ELSE Node_destroyFileChild(h, Node_getChild(h, FALSE, oNNode, i).oNResult,
                             oNNode, i, ulCount)

\* lines 277-280, after b, the outcome of the loop over the file children
Node_destroySelf(b, oNNode) ==
  IF b.ub THEN b
  ELSE [h |-> [b.h EXCEPT ![oNNode].filesLive = FALSE,
                          ![oNNode].live = FALSE],
        ulCount |-> b.ulCount + 1, ub |-> FALSE]

\* lines 266-275, after a, the outcome of the loop over the directory children
Node_destroyFiles(a, oNNode) ==
  IF a.ub THEN a
  ELSE Node_destroySelf(
         Node_destroyFileChildren([a.h EXCEPT ![oNNode].dirsLive = FALSE],
                                  oNNode, 0, a.ulCount),
         oNNode)

Node_destroyFree(h, oNNode) ==
  Node_destroyFiles(Node_destroyDirChildren(h, oNNode, 0, 0), oNNode)

\* Node_replaceFileContents, were it to leave the recorded size alone
Node_replaceFileContents_keepsSize(h, oNNode, pvNewContents, ulNewLength) ==
  [h |-> [h EXCEPT ![oNNode].fileContent = pvNewContents],
   oldContents |-> h[oNNode].fileContent]

Node_replaceFileContents(h, oNNode, pvNewContents, ulNewLength) ==
  [h |-> [h EXCEPT ![oNNode].fileContent = pvNewContents,
                   ![oNNode].fileSize = ulNewLength],
   oldContents |-> h[oNNode].fileContent]

Node_setDir(h, oNNode, isDirec) == [h EXCEPT ![oNNode].isDir = isDirec]

(* ---- the client: one action per call ---- *)

LiveNodes == {n \in 1..Len(nodes) : nodes[n].live}
Roots == {n \in LiveNodes : nodes[n].oNParent = NULL}

Init ==
  /\ nodes = <<>>
  /\ orphans = 0
  /\ ub = FALSE
  /\ faults = 0
  /\ sets = 0
  /\ destroys = 0
  /\ parents = {}
  /\ flipped = {}
  /\ last = [op |-> "init", status |-> "", arg |-> NULL, ret |-> NULL, dup |-> FALSE,
                   conflict |-> FALSE, level |-> FALSE,
                   content |-> NULL, size |-> 0]

\* a call of Node_new in which the allocator behaves as one of fails says
NewCall(fails) ==
  /\ ~ub
  /\ Len(nodes) < MaxNodes
  /\ \E isDirec \in BOOLEAN, oPPath \in Paths, oNParent \in {NULL} \cup LiveNodes,
        pvContents \in Buffers, fail \in fails :
       /\ oNParent = NULL => Cardinality(Roots) < MaxRoots
       /\ \E r \in {Node_new(nodes, isDirec, oPPath, oNParent, pvContents,
                             BufLen(pvContents), fail)} :
           \* an allocation the call never reaches cannot fail
           /\ fail # "none" => r.iStatus = "MEMORY_ERROR"
           /\ nodes' = r.h
           /\ orphans' = orphans + r.orphaned
           /\ ub' = (r.iStatus = "UB")
           /\ faults' = IF fail # "none" THEN faults + 1 ELSE faults
           /\ parents' = IF r.iStatus = "SUCCESS" /\ oNParent # NULL
                         THEN parents \cup {oNParent} ELSE parents
           /\ last' = [op |-> "Node_new", status |-> r.iStatus, arg |-> oNParent,
                       ret |-> r.oNResult,
                       dup |-> oNParent # NULL /\ HoldsPath(nodes, oNParent, oPPath),
                       conflict |-> NotAncestor(nodes, oNParent, oPPath),
                       level |-> OneLevelBelow(nodes, oNParent, oPPath),
                       content |-> NULL, size |-> 0]
           /\ UNCHANGED <<destroys, sets, flipped>>

\* every allocation succeeds
Call_Node_new == NewCall({"none"})

\* one allocation fails
Call_Node_new_fault ==
  /\ faults < MaxFaults
  /\ NewCall(FailPoints \ {"none"})

Call_Node_free ==
  /\ ~ub
  /\ \E oNNode \in LiveNodes :
       \E r \in {Node_free(nodes, oNNode)} :
           /\ nodes' = r.h
           /\ ub' = r.ub
           /\ \E ulCount \in IF r.ub THEN 0..MaxNodes ELSE {r.ulCount} :
                last' = [op |-> "Node_free", status |-> IF r.ub THEN "UB" ELSE "",
                         arg |-> oNNode, ret |-> ulCount, dup |-> FALSE,
                   conflict |-> FALSE, level |-> FALSE,
                   content |-> NULL, size |-> 0]
           /\ UNCHANGED <<destroys, orphans, faults, sets, parents, flipped>>

Call_Node_setDir ==
  /\ ~ub
  /\ sets < MaxSets
  /\ \E oNNode \in LiveNodes, isDirec \in BOOLEAN :
       /\ nodes' = Node_setDir(nodes, oNNode, isDirec)
       /\ last' = [op |-> "Node_setDir", status |-> "", arg |-> oNNode,
                   ret |-> NULL, dup |-> FALSE,
                   conflict |-> FALSE, level |-> FALSE,
                   content |-> NULL, size |-> 0]
       /\ sets' = sets + 1
       /\ flipped' = IF nodes[oNNode].isDir # isDirec
                     THEN flipped \cup {oNNode} ELSE flipped
       /\ UNCHANGED <<destroys, orphans, ub, faults, parents>>

Call_Node_replaceFileContents ==
  /\ ~ub
  /\ sets < MaxSets
  /\ \E oNNode \in LiveNodes, pvNewContents \in Buffers, ulNewLength \in Lengths :
       \E r \in {Node_replaceFileContents(nodes, oNNode, pvNewContents,
                                             ulNewLength)} :
           /\ nodes' = r.h
           /\ last' = [op |-> "Node_replaceFileContents", status |-> "",
                       arg |-> oNNode, ret |-> r.oldContents, dup |-> FALSE,
                       conflict |-> FALSE, level |-> FALSE,
                       content |-> pvNewContents, size |-> ulNewLength]
           /\ sets' = sets + 1
           /\ UNCHANGED <<destroys, orphans, ub, faults, parents, flipped>>

Call_Node_destroyFree ==
  /\ ~ub
  /\ destroys < MaxDestroys
  /\ \E oNNode \in LiveNodes :
       \E r \in {Node_destroyFree(nodes, oNNode)} :
           /\ nodes' = r.h
           /\ ub' = r.ub
           /\ destroys' = destroys + 1
           \* ulCount is read before it is ever written
           /\ \E ulCount \in 0..MaxGarbage :
                last' = [op |-> "Node_destroyFree",
                         status |-> IF r.ub THEN "UB" ELSE "",
                         arg |-> oNNode,
                         ret |-> IF r.ub THEN ulCount ELSE ulCount + r.ulCount,
                         dup |-> FALSE,
                         conflict |-> FALSE, level |-> FALSE,
                         content |-> NULL, size |-> 0]
           /\ UNCHANGED <<orphans, faults, sets, parents, flipped>>

\* creation and destruction, every allocation succeeding
Next ==
  \/ Call_Node_new
  \/ Call_Node_free

Spec == Init /\ [][Next]_vars

\* ... and allocations that fail
NextFaults ==
  \/ Call_Node_new
  \/ Call_Node_new_fault
  \/ Call_Node_free

SpecFaults == Init /\ [][NextFaults]_vars

\* ... and the two setters
NextSetters ==
  \/ Call_Node_new
  \/ Call_Node_free
  \/ Call_Node_setDir
  \/ Call_Node_replaceFileContents

SpecSetters == Init /\ [][NextSetters]_vars

\* creation, and destruction by either function
NextDestroy ==
  \/ Call_Node_new
  \/ Call_Node_free
  \/ Call_Node_destroyFree

SpecDestroy == Init /\ [][NextDestroy]_vars

(* ---- what the claims speak of ---- *)

\* the children of a node that are nodes: the entries of a collection that
\* point to live structs
LiveEntries(h, arr) == {arr[k] : k \in {i \in 1..Len(arr) : Live(h, arr[i])}}

\* the collection is in strictly ascending path order
SortedByPath(h, arr) ==
  \A i, j \in 1..Len(arr) :
    (i < j /\ Live(h, arr[i]) /\ Live(h, arr[j]))
      => Path_comparePath(h[arr[i]].oPPath, h[arr[j]].oPPath) < 0

\* no two entries of the collection have the same path
DistinctPaths(h, arr) ==
  \A i, j \in 1..Len(arr) :
    (i # j /\ Live(h, arr[i]) /\ Live(h, arr[j]))
      => h[arr[i]].oPPath # h[arr[j]].oPPath

\* the node and all of its directory and file descendants
RECURSIVE Subtree(_, _)
Subtree(h, n) ==
  {n} \cup UNION {Subtree(h, c) :
                    c \in LiveEntries(h, h[n].oDDirChildren)
                            \cup LiveEntries(h, h[n].oDFileChildren)}

\* the sequence without the entries equal to x
Without(arr, x) == SelectSeq(arr, LAMBDA e : e # x)

\* every block of memory the module has allocated and not released
LiveAllocs ==
  [blocks |-> {<<n, "struct">> : n \in {k \in 1..Len(nodes) : nodes[k].live}}
              \cup {<<n, "path">> : n \in {k \in 1..Len(nodes) : nodes[k].pathLive}}
              \cup {<<n, "dirs">> : n \in {k \in 1..Len(nodes) : nodes[k].dirsLive}}
              \cup {<<n, "files">> : n \in {k \in 1..Len(nodes) : nodes[k].filesLive}},
   orphans |-> orphans]

NewReturned == last.op = "Node_new" /\ last.status # "UB"
FreeReturned == last.op = "Node_free" /\ last.status # "UB"

(* ---- the claims ---- *)

\* C1: after any sequence of successful Node_new and Node_free calls, every
\* node's directory-children collection and every node's file-children
\* collection is in strictly ascending path order.
C1_ChildrenSorted ==
  ~ub => \A n \in LiveNodes :
           /\ SortedByPath(nodes, nodes[n].oDDirChildren)
           /\ SortedByPath(nodes, nodes[n].oDFileChildren)

\* C2: Node_new called with a parent that already holds a child whose path is
\* exactly the given path returns ALREADY_IN_TREE and sets *poNResult to NULL
\* (a call in which an allocation fails aside).
C2_DuplicateRejected ==
  (NewReturned /\ last.dup /\ last.status # "MEMORY_ERROR")
    => (last.status = "ALREADY_IN_TREE" /\ last.ret = NULL)

\* C3: in every reachable state, for every parent no two entries of its
\* directory-children collection have the same path and no two entries of
\* its file-children collection have the same path.
C3_NoDuplicatePaths ==
  ~ub => \A n \in LiveNodes :
           /\ DistinctPaths(nodes, nodes[n].oDDirChildren)
           /\ DistinctPaths(nodes, nodes[n].oDFileChildren)

\* C4: Node_free(node) returns exactly the number of nodes in the subtree
\* rooted at node.
C4_FreeCountsSubtree ==
  [][(FreeReturned' /\ ~ub')
       => last'.ret = Cardinality(Subtree(nodes, last'.arg))]_vars

\* C5: every failing return of Node_new has released everything allocated for
\* the in-progress node: the live allocations after the call are those
\* before it.
C5_FailedNewLeaksNothing ==
  [][(NewReturned' /\ last'.status # "SUCCESS") => LiveAllocs' = LiveAllocs]_vars

\* C9: after Node_free(node) returns, every node of the subtree rooted at node
\* has been freed (exactly once), and no node outside that subtree has been
\* freed.
C9_FreeFreesSubtree ==
  [][(FreeReturned' /\ ~ub')
       => LiveNodes' = LiveNodes \ Subtree(nodes, last'.arg)]_vars

\* C10: after Node_free(node) on a node that has a parent, the parent's two
\* collections contain exactly the entries they held before the call minus
\* node itself, in the same relative order.
C10_FreeDetachesOnlyNode ==
  [][(FreeReturned' /\ ~ub' /\ nodes[last'.arg].oNParent # NULL)
       => LET oNParent == nodes[last'.arg].oNParent
          IN  /\ nodes'[oNParent].oDDirChildren =
                   Without(nodes[oNParent].oDDirChildren, last'.arg)
              /\ nodes'[oNParent].oDFileChildren =
                   Without(nodes[oNParent].oDFileChildren, last'.arg)]_vars

C7_ChildrenPartitionedByType ==
  \A n \in LiveNodes :
    /\ \A c \in LiveEntries(nodes, nodes[n].oDDirChildren) : Node_isDir(nodes, c)
    /\ \A c \in LiveEntries(nodes, nodes[n].oDFileChildren) : ~Node_isDir(nodes, c)
    /\ LiveEntries(nodes, nodes[n].oDDirChildren)
         \cap LiveEntries(nodes, nodes[n].oDFileChildren) = {}

\* C7 as amended: in every reachable state each node held in a parent's
\* directory-children collection is a directory and each node held in its
\* file-children collection is a file, unless Node_setDir has changed that
\* node's flag; and no node is in both collections of a parent.
C7_UnflippedChildrenPartitionedByType ==
  \A n \in LiveNodes :
    /\ \A c \in LiveEntries(nodes, nodes[n].oDDirChildren) \ flipped :
         Node_isDir(nodes, c)
    /\ \A c \in LiveEntries(nodes, nodes[n].oDFileChildren) \ flipped :
         ~Node_isDir(nodes, c)
    /\ LiveEntries(nodes, nodes[n].oDDirChildren)
         \cap LiveEntries(nodes, nodes[n].oDFileChildren) = {}

\* a parent with a directory child and a file child, after a Node_setDir
\* that changed a flag
C7_Witness ==
  /\ flipped # {}
  /\ \E n \in LiveNodes :
       /\ LiveEntries(nodes, nodes[n].oDDirChildren) \ flipped # {}
       /\ LiveEntries(nodes, nodes[n].oDFileChildren) \ flipped # {}

\* C8: when Node_new returns any status other than SUCCESS, every node that
\* existed before the call, the collections of the parent among them, is
\* exactly as it was, no node has been added, and *poNResult is NULL.
C8_FailedNewChangesNothing ==
  [][(NewReturned' /\ last'.status # "SUCCESS")
       => (nodes' = nodes /\ last'.ret = NULL)]_vars

\* Node_new has failed to grow a collection of a parent that has children
C8_Witness ==
  /\ last.op = "Node_new"
  /\ last.status = "MEMORY_ERROR"
  /\ orphans = 2
  /\ last.arg \in LiveNodes
  /\ Node_getNumDirChildren(nodes, last.arg)
       + Node_getNumFileChildren(nodes, last.arg) > 0

\* C11 as stated: with a parent, Node_new returns CONFLICTING_PATH whenever
\* the parent's path is not a prefix of the new path, whatever the depth of
\* the new path, and otherwise NO_SUCH_PATH whenever the new path is not one
\* level below the parent; with no parent it returns NO_SUCH_PATH whenever
\* the path is not of depth 1, and SUCCESS when it is unless an allocation
\* fails.
C11_ValidationOrder ==
  last.op = "Node_new" =>
    /\ last.arg # NULL /\ last.conflict => last.status = "CONFLICTING_PATH"
    /\ last.arg # NULL /\ ~last.conflict /\ ~last.level
         => last.status = "NO_SUCH_PATH"
    /\ last.arg = NULL /\ ~last.level => last.status = "NO_SUCH_PATH"
    /\ last.arg = NULL /\ last.level
         => last.status \in {"SUCCESS", "MEMORY_ERROR"}

\* C11, amended: the same, of every call of Node_new in which neither the
\* allocation of the node nor the copy of its path fails, that is, of every
\* call that does not return MEMORY_ERROR for a path the checks would reject.
C11_ValidationOrderAfterAllocation ==
  last.op = "Node_new" =>
    /\ last.arg # NULL /\ last.conflict
         => last.status \in {"CONFLICTING_PATH", "MEMORY_ERROR"}
    /\ last.arg # NULL /\ ~last.conflict /\ ~last.level
         => last.status \in {"NO_SUCH_PATH", "MEMORY_ERROR"}
    /\ last.arg = NULL /\ ~last.level
         => last.status \in {"NO_SUCH_PATH", "MEMORY_ERROR"}
    /\ last.arg = NULL /\ last.level
         => last.status \in {"SUCCESS", "MEMORY_ERROR"}

\* a call with a parent whose path is no prefix of the new path, the new
\* path at the wrong depth as well, has returned CONFLICTING_PATH
C11_Witness ==
  /\ last.op = "Node_new" /\ last.arg # NULL
  /\ last.conflict /\ ~last.level
  /\ last.status = "CONFLICTING_PATH"

\* C12: Node_replaceFileContents(node, new, newLength) returns the content
\* pointer the node held before the call; after it the node's content is new
\* and its size is newLength; no other field of the node and no other node
\* has changed; and replacing once more, with the pointer returned and the
\* size the node had before, gives back new and restores the heap of before.
C12_ReplaceSwapsContents ==
  [][last'.op = "Node_replaceFileContents" =>
       LET oNNode == last'.arg
           again == Node_replaceFileContents(nodes', oNNode, last'.ret,
                                             Node_getFileSize(nodes, oNNode))
       IN  /\ last'.ret = Node_getFileContents(nodes, oNNode)
           /\ Node_getFileContents(nodes', oNNode) = last'.content
           /\ Node_getFileSize(nodes', oNNode) = last'.size
           /\ nodes' = [nodes EXCEPT ![oNNode].fileContent = last'.content,
                                     ![oNNode].fileSize = last'.size]
           /\ again.oldContents = last'.content
           /\ again.h = nodes]_vars

\* a file with a parent has been given a buffer other than the one it held,
\* and a size other than the buffer's own
C12_Witness ==
  /\ last.op = "Node_replaceFileContents"
  /\ ~Node_isDir(nodes, last.arg) /\ Node_getParent(nodes, last.arg) # NULL
  /\ last.ret # last.content
  /\ last.size # BufLen(last.content)
  /\ Node_getFileContents(nodes, last.arg) = last.content
  /\ Node_getFileSize(nodes, last.arg) = last.size

\* C13: every live node that has a parent has a path one level deeper than
\* the path of its parent, and every live node that has no parent has a path
\* of depth 1.
C13_DepthBelowParent ==
  \A n \in LiveNodes :
    IF Node_getParent(nodes, n) = NULL
    THEN Path_getDepth(Node_getPath(nodes, n)) = 1
    ELSE /\ Live(nodes, Node_getParent(nodes, n))
         /\ Path_getDepth(Node_getPath(nodes, n)) =
              Path_getDepth(Node_getPath(nodes, Node_getParent(nodes, n))) + 1

\* C14: for every live node that has a parent, the path of the node and the
\* path of the parent share a prefix as deep as the parent's path: the
\* parent's path is a prefix of the node's.
C14_ParentIsPrefix ==
  \A n \in LiveNodes :
    Node_getParent(nodes, n) # NULL =>
      /\ Live(nodes, Node_getParent(nodes, n))
      /\ Path_getSharedPrefixDepth(Node_getPath(nodes, n),
                                   Node_getPath(nodes, Node_getParent(nodes, n)))
           = Path_getDepth(Node_getPath(nodes, Node_getParent(nodes, n)))

\* C15: a successful Node_new with a parent inserts the new node into the
\* parent's directory collection if it is a directory and into its file
\* collection otherwise, at the index that is the number of entries of that
\* same collection with a smaller path, and leaves the other collection
\* alone; and no call asks for an insertion at an index beyond the length of
\* the collection it inserts into.
C15_InsertedAtRank ==
  [][(last'.op = "Node_new" /\ last'.arg # NULL) =>
       /\ last'.status # "UB"
       /\ last'.status = "SUCCESS" =>
            LET oNParent == last'.arg
                psNew == last'.ret
                isDirec == Node_isDir(nodes', psNew)
                into == IF isDirec THEN nodes[oNParent].oDDirChildren
                        ELSE nodes[oNParent].oDFileChildren
                ulRank == Cardinality(
                  {k \in 1..Len(into) :
                     /\ Live(nodes, into[k])
                     /\ Path_comparePath(Node_getPath(nodes, into[k]),
                                         Node_getPath(nodes', psNew)) < 0})
            IN  /\ ulRank <= Len(into)
                /\ nodes'[oNParent].oDDirChildren =
                     IF isDirec THEN DynArray_addAt(into, ulRank, psNew)
                     ELSE nodes[oNParent].oDDirChildren
                /\ nodes'[oNParent].oDFileChildren =
                     IF isDirec THEN nodes[oNParent].oDFileChildren
                     ELSE DynArray_addAt(into, ulRank, psNew)]_vars

\* C16: Node_compare orders nodes by directory flag before path: of two nodes
\* whose flags differ the result is not zero and its sign depends on the two
\* flags alone (any other two nodes with the same two flags compare the same
\* way); of two nodes whose flags are equal it is the ordering of their paths.
C16_CompareFlagFirst ==
  \A a, b \in LiveNodes :
    IF Node_isDir(nodes, a) # Node_isDir(nodes, b)
    THEN /\ Node_compare(nodes, a, b) # 0
         /\ \A c, d \in LiveNodes :
              (/\ Node_isDir(nodes, c) = Node_isDir(nodes, a)
               /\ Node_isDir(nodes, d) = Node_isDir(nodes, b))
                => (Node_compare(nodes, c, d) < 0) = (Node_compare(nodes, a, b) < 0)
    ELSE Node_compare(nodes, a, b) =
           Path_comparePath(Node_getPath(nodes, a), Node_getPath(nodes, b))

\* C17: Node_free terminates on every tree that calls of Node_new, Node_setDir
\* and Node_free have built: each turn of its two loops frees the first entry
\* of a collection and finds the collection shorter afterwards, so no turn
\* meets an entry that an earlier turn, or an earlier call, has freed. Once
\* the node is detached from its parent the call runs to its return.
C17_FreeDrainsChildren ==
  [][(last'.op = "Node_free" /\ ~Node_detach(nodes, last'.arg).ub)
       => last'.status # "UB"]_vars

\* C18: Node_destroyFree(node) destroys the whole subtree below node: when it
\* returns, every directory child of node together with that child's whole
\* subtree, and every file child of node, has been freed, however many
\* directory and file children node has.
C18_DestroyFreesChildren ==
  [][(last'.op = "Node_destroyFree" /\ ~ub') =>
       LET oNNode == last'.arg
       IN  /\ \A d \in LiveEntries(nodes, nodes[oNNode].oDDirChildren) :
                Subtree(nodes, d) \cap LiveNodes' = {}
           /\ LiveEntries(nodes, nodes[oNNode].oDFileChildren)
                \cap LiveNodes' = {}]_vars

====
